---------------------------- MODULE Spec2Model ----------------------------
(***************************************************************************)
(* A model of camera.py: the ToupCam session classes ToupCamCamera and     *)
(* ToupCamCameraRaw, the vendor device they drive through `lib`, the frame *)
(* callback that the SDK runs in its own context, and the pixel-buffer     *)
(* conversion get_pil_image.                                               *)
(***************************************************************************)
EXTENDS Integers, Sequences, FiniteSets, TLC

VARIABLES
    phase,       \* "none" | "live" | "ctor_raised": the session object
    cls,         \* "ToupCamCamera" | "ToupCamCameraRaw"
    resolution,  \* self.resolution
    bits,        \* self.bits
    cam,         \* self.cam: the handle Toupcam_Open returned, or "NULL"
    _data,       \* self._data
    _frame_fn,   \* self._frame_fn: None, or the registered get_frame closure
    dev,         \* the vendor device behind lib
    cbpc,        \* position of the SDK's callback context inside get_frame
    still,       \* get_frame's local `still` buffer
    pulling,     \* the Toupcam_PullImage now writing self._data, if any
    callerpc,    \* position of the caller's context: "idle", or the operation reading
    closeCalls,  \* how many times lib.Toupcam_Close has been called
    last         \* the step just taken: operation, device call, pull, read, outcome

vars == <<phase, cls, resolution, bits, cam, _data, _frame_fn, dev, cbpc, still,
          pulling, callerpc, closeCalls, last>>

sessionVars == <<phase, cls, resolution, bits, cam, _data, _frame_fn>>

callbackVars == <<cbpc, still, pulling>>

-----------------------------------------------------------------------------
(* Bounds of the model.                                                    *)

\* Largest number of elements of a buffer handed to get_pil_image directly.
MaxCells == 4

\* How many times cam_close may be called in one behaviour.
MaxClose == 2

-----------------------------------------------------------------------------
(* Python values.                                                          *)

None == [kind |-> "None"]

Value(v) == [kind |-> "value", v |-> v]

IsNone(x) == x.kind = "None"

\* numpy element sizes in bytes: uint8, uint16, uint32.
ItemSizes == {1, 2, 4}

\* An ndarray of shape (h, w) whose elements are isz bytes wide; px[r][c] is
\* the element as it lies in memory: its isz bytes, in memory order.
NdArray(h, w, isz, px) == [kind |-> "ndarray", h |-> h, w |-> w, itemsize |-> isz, px |-> px]

\* np.zeros((h, w), dtype)
np_zeros(h, w, isz) ==
    NdArray(h, w, isz, [r \in 1..h |-> [c \in 1..w |-> [i \in 1..isz |-> 0]]])

\* Capacity in bytes of an ndarray's memory.
nbytes(a) == a.h * a.w * a.itemsize

\* The element of isz bytes whose first bytes in memory are b0, b1, b2, b3.
Pack(isz, b0, b1, b2, b3) == SubSeq(<<b0, b1, b2, b3>>, 1, isz)

RECURSIVE Flatten(_)
Flatten(ss) == IF ss = <<>> THEN <<>> ELSE Head(ss) \o Flatten(Tail(ss))

-----------------------------------------------------------------------------
(* get_pil_image: the pixel-buffer conversion, step by step.               *)

Raise(exc, at) == [kind |-> "raise", exc |-> exc, at |-> at]

Raised(x) == x.kind = "raise"

\* data.view(np.uint8): the same memory, each row now the bytes of its elements.
view_uint8(data) ==
    [kind |-> "bytes2d", h |-> data.h, w |-> data.w * data.itemsize,
     rows |-> [r \in 1..data.h |-> Flatten(data.px[r])]]

\* .reshape(data.shape + (-1,)): numpy infers the last axis, and refuses when
\* the known axes multiply to 0 or do not divide the size.
reshape_last(v, h, w) ==
    LET size == v.h * v.w
        known == h * w
    IN IF known = 0 \/ size % known # 0
       THEN Raise("ValueError", "reshape")
       ELSE LET k == size \div known
            IN [kind |-> "bytes3d", h |-> h, w |-> w, k |-> k,
                at |-> [r \in 1..h |-> [c \in 1..w |->
                          SubSeq(v.rows[r], (c - 1) * k + 1, c * k)]]]

\* raw[..., :3]
slice3(raw) ==
    LET k == IF raw.k < 3 THEN raw.k ELSE 3
    IN [kind |-> "bytes3d", h |-> raw.h, w |-> raw.w, k |-> k,
        at |-> [r \in 1..raw.h |-> [c \in 1..raw.w |-> SubSeq(raw.at[r][c], 1, k)]]]

Image(h, w, px) == [kind |-> "image", h |-> h, w |-> w, px |-> px]

\* fromarray that pads a buffer of fewer than three channels instead of refusing it.
fromarray_padding(bgr) ==
    Image(bgr.h, bgr.w,
          [r \in 1..bgr.h |-> [c \in 1..bgr.w |->
             [n \in 1..3 |-> IF n <= bgr.k THEN bgr.at[r][c][n] ELSE 0]]])

\* PIL.Image.fromarray(bgr, 'RGB'): the array's bytes (tobytes) are decoded as
\* packed 3-byte pixels of an image of size (shape[1], shape[0]); too few
\* bytes for that size is an error.
fromarray_RGB(bgr) ==
    LET buf == Flatten([r \in 1..bgr.h |-> Flatten(bgr.at[r])])
    IN IF Len(buf) < 3 * bgr.w * bgr.h
       THEN Raise("ValueError", "fromarray")
       ELSE Image(bgr.h, bgr.w,
                  [r \in 1..bgr.h |-> [c \in 1..bgr.w |->
                     SubSeq(buf, ((r - 1) * bgr.w + (c - 1)) * 3 + 1,
                                 ((r - 1) * bgr.w + (c - 1)) * 3 + 3)]])

\* image.split(): band n (1..3) of the image.
split(image, n) == [r \in 1..image.h |-> [c \in 1..image.w |-> image.px[r][c][n]]]

\* PIL.Image.merge('RGB', (x, y, z))
merge_RGB(image, x, y, z) ==
    Image(image.h, image.w,
          [r \in 1..image.h |-> [c \in 1..image.w |-> <<x[r][c], y[r][c], z[r][c]>>]])

\* get_pil_image without the final swap: the image fromarray built, as is.
get_pil_image_unswapped(data) ==
    LET raw == reshape_last(view_uint8(data), data.h, data.w)
    IN IF Raised(raw) THEN raw ELSE fromarray_RGB(slice3(raw))

\* get_pil_image(data), of both classes (data is not None).
get_pil_image(data) ==
    LET raw == reshape_last(view_uint8(data), data.h, data.w)
    IN IF Raised(raw) THEN raw
       ELSE LET image == fromarray_RGB(slice3(raw))
            IN IF Raised(image) THEN image
               ELSE LET b == split(image, 1)
                        g == split(image, 2)
                        r == split(image, 3)
                    IN merge_RGB(image, r, g, b)

-----------------------------------------------------------------------------
(* The vendor device behind lib.                                           *)

Classes == {"ToupCamCamera", "ToupCamCameraRaw"}

\* set_esize's docstring: nres = 0, 1 or 2.
NumPresets == 3

Presets == 0 .. (NumPresets - 1)

\* Resolutions a session is constructed with: the largest preset and the
\* default, the smallest.
ResArgs == {0, NumPresets - 1}

\* Bit depths a caller may ask for.
BitsArgs == {8, 16, 32}

\* <<width, height>> of the device's resolution preset n: preset 0 is the largest.
DevSize(n) == <<NumPresets + 1 - n, NumPresets - n>>

\* What the device writes to a getter's out-parameter.
DevValue == 7

\* success(result), imported from core: the call's status is the success status.
success(result) == result = "S_OK"

\* The state of the handle a lib call is given.
HandleState(h) ==
    IF h = "NULL" THEN "null"
    ELSE IF dev.state \in {"open", "running"} THEN "valid" ELSE "closed"

\* Statuses a lib call on handle h may report: a null handle is refused, a
\* live device may fail, and a call on a handle already closed is undefined.
Results(h) == IF HandleState(h) = "null" THEN {"E_FAIL"} ELSE {"S_OK", "E_FAIL"}

\* Toupcam_put_eSize on device d.
PutESize(d, h, nres, result) ==
    IF HandleState(h) = "valid" /\ success(result) /\ nres \in Presets
    THEN [d EXCEPT !.esize = nres] ELSE d

\* Toupcam_StartPullModeWithCallback on device d.
StartPullMode(d, h, result) ==
    IF HandleState(h) = "valid" /\ success(result)
    THEN [d EXCEPT !.state = "running"] ELSE d

\* Bytes of one frame at the device's current size, at bitDepth bits per pixel.
FrameBytes(d, bitDepth) == DevSize(d.esize)[1] * DevSize(d.esize)[2] * (bitDepth \div 8)

\* The pixel the device delivers: bytes B, G, R, pad in memory order.
FramePixel == Pack(4, 10, 20, 30, 255)

\* The buffer after the device has pulled a frame of `need` bytes into it:
\* elements are overwritten in memory order, as far as the frame reaches.
Pulled(a, need) ==
    [a EXCEPT !.px = [r \in 1..a.h |-> [c \in 1..a.w |->
        IF ((r - 1) * a.w + c) * a.itemsize <= need
        THEN SubSeq(FramePixel, 1, a.itemsize) ELSE a.px[r][c]]]]

-----------------------------------------------------------------------------
(* The record of a step.                                                   *)

NoExc == [type |-> "none", at |-> "none"]

Exc(type, at) == [type |-> type, at |-> at]

NoCall == [fn |-> "none", handle |-> "none"]

\* A lib call and the state of the handle it was given.
Call(fn, h) == [fn |-> fn, handle |-> HandleState(h)]

NoPull == [kind |-> "none", cap |-> 0, need |-> 0]

\* A pull: the capacity of its destination, and the bytes of a frame at the
\* device's current size and the session's bit depth.
Pull(kind, a, d, bitDepth) == [kind |-> kind, cap |-> nbytes(a), need |-> FrameBytes(d, bitDepth)]

NoRead == [buf |-> "none", ctx |-> "none"]

\* A conversion: the buffer get_pil_image reads, and the context it runs in.
Read(buf, ctx) == [buf |-> buf, ctx |-> ctx]

File(path, image) == [kind |-> "file", path |-> path, image |-> image]

\* A step of operation op on class `on`: `failed` says a device call of it
\* reported non-success, `reported` is the value the device handed back, `file`
\* what image.save wrote.
Step(op, on, arg, failed, reported, ret, exc, file, call, pull, read) ==
    [op |-> op, on |-> on, arg |-> arg, failed |-> failed, reported |-> reported,
     ret |-> ret, exc |-> exc, file |-> file, call |-> call, pull |-> pull, read |-> read]

\* A step that returns nothing and raises nothing.
Quiet(op, on, arg, failed, call) ==
    Step(op, on, arg, failed, None, None, NoExc, None, call, NoPull, NoRead)

NotPulling == [active |-> FALSE, need |-> 0, stale |-> FALSE]

\* The class attribute _save_path.
save_path(c) == IF c = "ToupCamCameraRaw" THEN Value("temp.png") ELSE None

Init ==
    /\ phase = "none"
    /\ cls = "none"
    /\ resolution = None
    /\ bits = None
    /\ cam = "unset"
    /\ _data = None
    /\ _frame_fn = None
    /\ dev = [state |-> "idle", esize |-> 0, snap |-> FALSE]
    /\ cbpc = "idle"
    /\ still = None
    /\ pulling = NotPulling
    /\ callerpc = "idle"
    /\ closeCalls = 0
    /\ last = Quiet("none", "none", None, FALSE, NoCall)

-----------------------------------------------------------------------------
(* Construction.                                                           *)

\* A validation that lets every depth asked for through.
ValidBitsWide == BitsArgs

\* `bits not in (32,)`
ValidBits == {32}

\* get_camera: Toupcam_Open(None) returns a handle, or NULL with no device.
get_camera(present) == IF present THEN "h1" ELSE "NULL"

\* __init__(resolution, bits) of both classes.
init(c, res, b) ==
    /\ phase = "none"
    /\ IF b \notin ValidBits
       THEN /\ phase' = "ctor_raised"
            /\ last' = Step("__init__", c, Value(b), FALSE, None, None,
                            Exc("ValueError", "__init__"), None, NoCall, NoPull, NoRead)
            /\ UNCHANGED <<cls, resolution, bits, cam, dev>>
       ELSE \E present \in BOOLEAN :
            /\ phase' = "live"
            /\ cls' = c
            /\ resolution' = Value(res)
            /\ cam' = get_camera(present)
            /\ dev' = IF present THEN [dev EXCEPT !.state = "open"] ELSE dev
            /\ bits' = Value(b)
            /\ last' = Quiet("__init__", c, Value(b), ~present,
                             [fn |-> "Toupcam_Open", handle |-> "none"])
    /\ UNCHANGED <<_data, _frame_fn, callbackVars, callerpc, closeCalls>>

-----------------------------------------------------------------------------
(* Operations of the caller's context.                                     *)

CallerReady == phase = "live" /\ callerpc = "idle"

\* get_size of both classes: (w, h) on success, nothing otherwise.
get_size_ret(result, d) == IF success(result) THEN Value(DevSize(d.esize)) ELSE None

\* cam_open of both classes; ToupCamCameraRaw allocates no _data and also
\* asks for raw output (Toupcam_put_option) before starting pull mode.  A
\* Toupcam_PullImage still writing the old self._data loses its buffer.
cam_open ==
    /\ CallerReady
    /\ \E rPut \in Results(cam), rSize \in Results(cam), rStart \in Results(cam) :
         LET d1 == PutESize(dev, cam, resolution.v, rPut)
             args == get_size_ret(rSize, d1)
         IN IF IsNone(args)
            THEN /\ dev' = d1
                 /\ last' = Quiet("cam_open", cls, None, TRUE, Call("Toupcam_get_Size", cam))
                 /\ UNCHANGED <<_data, _frame_fn, pulling>>
            ELSE /\ _data' = IF cls = "ToupCamCamera"
                             THEN np_zeros(args.v[2], args.v[1], IF bits.v = 8 THEN 1 ELSE 4)
                             ELSE _data
                 /\ pulling' = IF pulling.active /\ cls = "ToupCamCamera"
                               THEN [pulling EXCEPT !.stale = TRUE] ELSE pulling
                 /\ _frame_fn' = Value("get_frame")
                 /\ dev' = StartPullMode(d1, cam, rStart)
                 /\ last' = Step("cam_open", cls, None, ~success(rPut) \/ ~success(rStart),
                                 None, Value(success(rStart)), NoExc, None,
                                 Call("Toupcam_StartPullModeWithCallback", cam),
                                 NoPull, NoRead)
    /\ UNCHANGED <<phase, cls, resolution, bits, cam, cbpc, still, callerpc, closeCalls>>

\* cam_close of both classes: Toupcam_Close whenever self.cam is not NULL.  The
\* SDK's close returns once its callback context is out of get_frame.
cam_close ==
    /\ CallerReady /\ cbpc = "idle" /\ closeCalls < MaxClose
    /\ IF cam # "NULL"
       THEN /\ closeCalls' = closeCalls + 1
            /\ dev' = IF HandleState(cam) = "valid"
                      THEN [dev EXCEPT !.state = "closed", !.snap = FALSE] ELSE dev
            /\ last' = Quiet("cam_close", cls, None, FALSE, Call("Toupcam_Close", cam))
       ELSE /\ last' = Quiet("cam_close", cls, None, FALSE, NoCall)
            /\ UNCHANGED <<closeCalls, dev>>
    /\ UNCHANGED <<sessionVars, callbackVars, callerpc>>

\* ToupCamCameraRaw.snap: Toupcam_Snap(self.cam, 0); the still arrives later.
\* ToupCamCamera has no operation that asks the device for a still.
snap ==
    /\ CallerReady /\ cls = "ToupCamCameraRaw"
    /\ \E result \in Results(cam) :
         /\ dev' = IF HandleState(cam) = "valid" /\ dev.state = "running" /\ success(result)
                   THEN [dev EXCEPT !.snap = TRUE] ELSE dev
         /\ last' = Quiet("snap", cls, None, ~success(result), Call("Toupcam_Snap", cam))
    /\ UNCHANGED <<sessionVars, callbackVars, callerpc, closeCalls>>

\* set_esize(nres) of both classes: the status is dropped.
set_esize(nres) ==
    /\ CallerReady
    /\ \E result \in Results(cam) :
         /\ dev' = PutESize(dev, cam, nres, result)
         /\ last' = Quiet("set_esize", cls, Value(nres), ~success(result),
                          Call("Toupcam_put_eSize", cam))
    /\ UNCHANGED <<sessionVars, callbackVars, callerpc, closeCalls>>

\* What the device hands back to a call that reported `result`.
Reported(result, v) == IF success(result) THEN Value(v) ELSE None

\* get_size() of both classes.
get_size ==
    /\ CallerReady
    /\ \E result \in Results(cam) :
         last' = Step("get_size", cls, None, ~success(result),
                      Reported(result, DevSize(dev.esize)), get_size_ret(result, dev),
                      NoExc, None, Call("Toupcam_get_Size", cam), NoPull, NoRead)
    /\ UNCHANGED <<sessionVars, dev, callbackVars, callerpc, closeCalls>>

\* The getters built on _lib_get_func, and the getters that call lib directly.
LibGetFuncs == {"get_gamma", "get_contrast", "get_brightness", "get_saturation",
                "get_hue", "get_exposure_time"}

DirectGetters == {"get_temperature_tint", "get_auto_exposure", "get_esize",
                  "get_serial", "get_firmware_version", "get_hardware_version"}

Getters == LibGetFuncs \cup DirectGetters \cup {"get_size"}

\* _lib_func(func, *args): the call on self.cam, reduced to success or not.
_lib_func(result) == success(result)

\* A getter that hands back the out-parameter whatever the status: the
\* c_int() it was created as, 0, when the device wrote nothing.
lib_get_func_unchecked(result, v) == IF _lib_func(result) THEN Value(v) ELSE Value(0)

\* _lib_get_func(func): v.value when the call succeeded, nothing otherwise.
_lib_get_func(result, v) == IF _lib_func(result) THEN Value(v) ELSE None

\* The getters that test success(result) themselves.
direct_getter(result, v) == IF success(result) THEN Value(v) ELSE None

\* One of ToupCamCamera's getters other than get_size.
getter(g) ==
    /\ CallerReady /\ cls = "ToupCamCamera"
    /\ \E result \in Results(cam) :
         last' = Step(g, cls, None, ~success(result), Reported(result, DevValue),
                      IF g \in LibGetFuncs THEN _lib_get_func(result, DevValue)
                                           ELSE direct_getter(result, DevValue),
                      NoExc, None, Call("Toupcam_get", cam), NoPull, NoRead)
    /\ UNCHANGED <<sessionVars, dev, callbackVars, callerpc, closeCalls>>

Setters == {"set_gamma", "set_contrast", "set_brightness", "set_saturation",
            "set_hue", "set_exposure_time", "set_temperature_tint", "set_auto_exposure"}

\* One of ToupCamCamera's setters: the device call is made and its status dropped.
setter(g) ==
    /\ CallerReady /\ cls = "ToupCamCamera"
    /\ \E result \in Results(cam) :
         last' = Quiet(g, cls, Value(DevValue), ~success(result), Call("Toupcam_put", cam))
    /\ UNCHANGED <<sessionVars, dev, callbackVars, callerpc, closeCalls>>

\* get_image_data(): the reference to self._data, no conversion.
get_image_data ==
    /\ CallerReady /\ cls = "ToupCamCamera"
    /\ last' = Step("get_image_data", cls, None, FALSE, None, _data, NoExc, None,
                    NoCall, NoPull, NoRead)
    /\ UNCHANGED <<sessionVars, dev, callbackVars, callerpc, closeCalls>>

\* The operations of ToupCamCamera that convert self._data (data is None);
\* save_jpeg and save_tiff are save with the format fixed.
ReadOps == {"save", "get_jpeg_data", "get_pil_image"}

\* The first half of such an operation: get_pil_image starts to read
\* self._data (None before any cam_open: an AttributeError on .view).
read_begin(op) ==
    /\ CallerReady /\ cls = "ToupCamCamera"
    /\ IF IsNone(_data)
       THEN /\ last' = Step(op, cls, None, FALSE, None, None,
                            Exc("AttributeError", "view"), None, NoCall, NoPull, NoRead)
            /\ UNCHANGED callerpc
       ELSE /\ callerpc' = op
            /\ last' = Step(op, cls, None, FALSE, None, None, NoExc, None, NoCall, NoPull,
                            Read("_data", "caller"))
    /\ UNCHANGED <<sessionVars, dev, callbackVars, closeCalls>>

\* The second half: the image is built and saved or returned.  A pull that is
\* writing self._data meanwhile leaves the read with the old or the new frame.
\* get_jpeg_data saves into a StringIO, which takes no bytes.
read_end ==
    /\ phase = "live" /\ callerpc \in ReadOps
    /\ \E src \in (IF pulling.active /\ ~pulling.stale
                   THEN {_data, Pulled(_data, pulling.need)} ELSE {_data}) :
         LET image == get_pil_image(src)
             exc == IF Raised(image) THEN Exc(image.exc, image.at)
                    ELSE IF callerpc = "get_jpeg_data" THEN Exc("TypeError", "StringIO.write")
                    ELSE NoExc
         IN last' = Step(callerpc, cls, None, FALSE, None,
                         IF exc = NoExc /\ callerpc = "get_pil_image" THEN image ELSE None,
                         exc,
                         IF exc = NoExc /\ callerpc = "save" THEN File("p", image) ELSE None,
                         NoCall, NoPull, Read("_data", "caller"))
    /\ callerpc' = "idle"
    /\ UNCHANGED <<sessionVars, dev, callbackVars, closeCalls>>

-----------------------------------------------------------------------------
(* _do_save, and get_frame in the SDK's callback context.                  *)

\* _do_save(im) of class c: the image of im is saved to _save_path; an error
\* of get_pil_image, or of save for want of a path, leaves nothing saved.
\* The result is <<exception, file written or None>>.
_do_save(c, im) ==
    LET image == get_pil_image(im)
    IN IF Raised(image) THEN <<Exc(image.exc, image.at), None>>
       ELSE IF IsNone(save_path(c)) THEN <<Exc("ValueError", "save"), None>>
       ELSE <<NoExc, File(save_path(c).v, image)>>

CallbackReady == dev.state = "running" /\ ~IsNone(_frame_fn) /\ cbpc = "idle"

\* ToupCamCamera's get_frame, TOUPCAM_EVENT_IMAGE: Toupcam_PullImage starts to
\* write the frame into self._data.
cb_image_begin ==
    /\ CallbackReady /\ cls = "ToupCamCamera"
    /\ pulling' = [active |-> TRUE, need |-> FrameBytes(dev, bits.v), stale |-> FALSE]
    /\ cbpc' = "pulling"
    /\ last' = Step("get_frame", cls, Value("IMAGE"), FALSE, None, None, NoExc, None,
                    Call("Toupcam_PullImage", cam), Pull("live", _data, dev, bits.v), NoRead)
    /\ UNCHANGED <<sessionVars, dev, still, callerpc, closeCalls>>

\* A live-frame branch that converts the frame it pulled before it returns.
cb_image_end_converting ==
    /\ cbpc = "pulling"
    /\ _data' = IF pulling.stale THEN _data ELSE Pulled(_data, pulling.need)
    /\ pulling' = NotPulling
    /\ cbpc' = "idle"
    /\ last' = Step("get_frame", cls, Value("IMAGE"), FALSE, None, None, NoExc, None,
                    NoCall, NoPull, Read("_data", "callback"))
    /\ UNCHANGED <<phase, cls, resolution, bits, cam, _frame_fn, dev, still, callerpc,
                   closeCalls>>

\* Toupcam_PullImage returns: the frame is in the buffer, get_frame is done.
cb_image_end ==
    /\ cbpc = "pulling"
    /\ _data' = IF pulling.stale THEN _data ELSE Pulled(_data, pulling.need)
    /\ pulling' = NotPulling
    /\ cbpc' = "idle"
    /\ last' = Quiet("get_frame", cls, Value("IMAGE"), FALSE, NoCall)
    /\ UNCHANGED <<phase, cls, resolution, bits, cam, _frame_fn, dev, still, callerpc,
                   closeCalls>>

\* get_frame, TOUPCAM_EVENT_STILLIMAGE, of both classes, up to the allocation
\* of `still`: `w, h = self.get_size()` cannot unpack a failed query.
cb_still_size ==
    /\ CallbackReady /\ dev.snap
    /\ \E result \in Results(cam) :
         LET args == get_size_ret(result, dev)
         IN IF IsNone(args)
            THEN /\ last' = Step("get_frame", cls, Value("STILLIMAGE"), TRUE, None, None,
                                 Exc("TypeError", "unpack"), None,
                                 Call("Toupcam_get_Size", cam), NoPull, NoRead)
                 /\ UNCHANGED <<still, cbpc>>
            ELSE /\ still' = np_zeros(args.v[2], args.v[1], 4)
                 /\ cbpc' = "still"
                 /\ last' = Quiet("get_frame", cls, Value("STILLIMAGE"), FALSE,
                                  Call("Toupcam_get_Size", cam))
    /\ dev' = [dev EXCEPT !.snap = FALSE]
    /\ UNCHANGED <<sessionVars, pulling, callerpc, closeCalls>>

\* The rest of the still branch: Toupcam_PullStillImage into `still`, then
\* _do_save(still).
cb_still_pull_save ==
    /\ cbpc = "still"
    /\ LET out == _do_save(cls, Pulled(still, FrameBytes(dev, bits.v)))
       IN last' = Step("get_frame", cls, Value("STILLIMAGE"), FALSE, None, None,
                       out[1], out[2], Call("Toupcam_PullStillImage", cam),
                       Pull("still", still, dev, bits.v), Read("still", "callback"))
    /\ still' = None
    /\ cbpc' = "idle"
    /\ UNCHANGED <<sessionVars, dev, pulling, callerpc, closeCalls>>

-----------------------------------------------------------------------------
(* The session: one object, its caller and the SDK's callback context.     *)

Next ==
    \/ \E c \in Classes, res \in ResArgs, b \in BitsArgs : init(c, res, b)
    \/ cam_open
    \/ cam_close
    \/ snap
    \/ \E nres \in Presets : set_esize(nres)
    \/ get_size
    \/ \E g \in LibGetFuncs \cup DirectGetters : getter(g)
    \/ \E g \in Setters : setter(g)
    \/ get_image_data
    \/ \E op \in ReadOps : read_begin(op)
    \/ read_end
    \/ cb_image_begin
    \/ cb_image_end
    \/ cb_still_size
    \/ cb_still_pull_save

Spec == Init /\ [][Next]_vars

-----------------------------------------------------------------------------
(* get_pil_image and _do_save on their own, over every small buffer.       *)

\* Elements a buffer may hold, by element size.
Samples(isz) ==
    IF isz = 4
    THEN {Pack(isz, 10, 20, 30, 255), Pack(isz, 10, 20, 30, 0), Pack(isz, 200, 100, 50, 7)}
    ELSE {Pack(isz, 10, 20, 30, 255)}

\* The shapes (h, w) of at most MaxCells elements, the empty ones among them.
Shapes == {s \in (0..MaxCells) \X (0..MaxCells) : s[1] * s[2] <= MaxCells}

Buffers ==
    UNION {UNION {{NdArray(s[1], s[2], isz, px) :
                      px \in [1..s[1] -> [1..s[2] -> Samples(isz)]]}
                  : isz \in ItemSizes} : s \in Shapes}

\* get_pil_image(data) called on a buffer.
call_get_pil_image(c, data) ==
    /\ last.op = "none"
    /\ LET image == get_pil_image(data)
       IN last' = Step("get_pil_image", c, data, FALSE, None,
                       IF Raised(image) THEN None ELSE image,
                       IF Raised(image) THEN Exc(image.exc, image.at) ELSE NoExc,
                       None, NoCall, NoPull, Read("data", "caller"))
    /\ UNCHANGED <<sessionVars, dev, callbackVars, callerpc, closeCalls>>

\* _do_save(im) called on a buffer.
call_do_save(c, im) ==
    /\ last.op = "none"
    /\ LET out == _do_save(c, im)
       IN last' = Step("_do_save", c, im, FALSE, None, None, out[1], out[2],
                       NoCall, NoPull, Read("im", "caller"))
    /\ UNCHANGED <<sessionVars, dev, callbackVars, callerpc, closeCalls>>

\* One call, on a buffer of the caller's choice.
NextPil ==
    \/ /\ last.op = "none"
       /\ \E c \in Classes, data \in Buffers : call_get_pil_image(c, data)
    \/ /\ last.op = "none"
       /\ \E c \in Classes, im \in Buffers : call_do_save(c, im)

SpecPil == Init /\ [][NextPil]_vars

-----------------------------------------------------------------------------
(* The properties.                                                         *)

IsBuffer(x) == x.kind = "ndarray"

\* C1: for a buffer of height h > 0 and width w > 0 of 4-byte elements (bytes
\* b0, b1, b2, b3 in memory order), get_pil_image of either class returns an
\* image of height h and width w whose pixel (row, col) is R = b2, G = b1,
\* B = b0 of the element at (row, col); b3 plays no part.
C1_ChannelOrder ==
    (/\ last.op = "get_pil_image"
     /\ IsBuffer(last.arg)
     /\ last.arg.itemsize = 4 /\ last.arg.h > 0 /\ last.arg.w > 0)
    => /\ last.exc = NoExc
       /\ last.ret.kind = "image"
       /\ last.ret.h = last.arg.h
       /\ last.ret.w = last.arg.w
       /\ \A r \in 1..last.arg.h : \A c \in 1..last.arg.w :
            last.ret.px[r][c] = <<last.arg.px[r][c][3], last.arg.px[r][c][2],
                                  last.arg.px[r][c][1]>>

\* The 2x2 buffer of (10, 20, 30, 255) has been converted: R=30, G=20, B=10.
C1_Witness ==
    /\ last.op = "get_pil_image"
    /\ IsBuffer(last.arg)
    /\ last.arg = NdArray(2, 2, 4, [r \in 1..2 |-> [c \in 1..2 |-> <<10, 20, 30, 255>>]])
    /\ last.ret = Image(2, 2, [r \in 1..2 |-> [c \in 1..2 |-> <<30, 20, 10>>]])

\* C2: constructing a session of either class with a bit depth other than 8
\* or 32 raises, and nothing has touched the device when it does: no lib call
\* was made, the device is unopened and the object holds no handle.
C2_RejectBeforeDevice ==
    (last.op = "__init__" /\ last.arg.v \notin {8, 32})
    => /\ last.exc.type = "ValueError"
       /\ phase = "ctor_raised"
       /\ last.call = NoCall
       /\ dev.state = "idle"
       /\ cam = "unset"

\* A construction with bits = 16 has raised.
C2_Witness ==
    /\ phase = "ctor_raised"
    /\ last.op = "__init__"
    /\ last.arg.v = 16

\* C3: bit depths 8 and 32 are both accepted: the construction succeeds and
\* stores the depth, and a successful cam_open of ToupCamCamera allocates
\* _data with elements of that depth.
C3_BothDepthsValid ==
    /\ (last.op = "__init__" /\ last.arg.v \in {8, 32})
       => (last.exc = NoExc /\ phase = "live" /\ bits = last.arg)
    /\ (last.op = "cam_open" /\ cls = "ToupCamCamera" /\ ~IsNone(last.ret))
       => _data.itemsize * 8 = bits.v

\* C4: a getter whose device call reports non-success returns None; it
\* returns what the device reported only when the call succeeded.
C4_GetterNoneOnFailure ==
    last.op \in Getters
    => IF last.failed THEN IsNone(last.ret)
                      ELSE ~IsNone(last.ret) /\ last.ret = last.reported

\* A getter was called on a handle already closed, the call failed, and the
\* getter returned None.
C4_Witness ==
    /\ last.op = "get_gamma"
    /\ last.call.handle = "closed"
    /\ last.failed
    /\ IsNone(last.ret)

\* C5: cam_close is idempotent: Toupcam_Close is called at most once for the
\* handle the session opened, and cam_close on a NULL handle calls nothing.
C5_CloseOnce ==
    /\ closeCalls <= 1
    /\ (last.op = "cam_close" /\ cam = "NULL") => last.call = NoCall

\* C6: get_pil_image refuses a buffer whose elements are narrower than 3 bytes
\* (the ShapeError: PIL's fromarray has too few bytes) and a buffer of height
\* or width 0 (the EmptyBufferError: numpy's reshape cannot infer the axis);
\* no image results, and _do_save saves nothing.
C6_GeometryErrors ==
    (last.op \in {"get_pil_image", "_do_save"} /\ IsBuffer(last.arg))
    => /\ (last.arg.h = 0 \/ last.arg.w = 0)
          => (last.exc = Exc("ValueError", "reshape")
              /\ IsNone(last.ret) /\ IsNone(last.file))
       /\ (last.arg.h > 0 /\ last.arg.w > 0 /\ last.arg.itemsize < 3)
          => (last.exc = Exc("ValueError", "fromarray")
              /\ IsNone(last.ret) /\ IsNone(last.file))

\* _do_save of the class that has a save path was handed a non-empty 8-bit
\* buffer, raised, and saved nothing.
C6_Witness ==
    /\ last.op = "_do_save"
    /\ last.on = "ToupCamCameraRaw"
    /\ IsBuffer(last.arg)
    /\ last.arg.itemsize = 1 /\ last.arg.h > 0 /\ last.arg.w > 0
    /\ last.exc.type = "ValueError"
    /\ IsNone(last.file)

C8_PullCapacity == last.pull.kind # "none" => last.pull.cap = last.pull.need

\* C9: once the device is closed, no device call other than a repeated close
\* (C5's matter) is issued against the closed handle: no pull, no snap, no
\* getter, no setter.
C9_NoCallAfterClose == last.call.handle = "closed" => last.call.fn = "Toupcam_Close"

\* C10: an operation in which a device call reported non-success raises
\* nothing; a getter among them returns None.
C10_FailureNeverRaises ==
    last.failed => (last.exc = NoExc /\ (last.op \in Getters => IsNone(last.ret)))

=============================================================================
